---------------------------- MODULE Spec2Model ----------------------------
(***************************************************************************)
(* A model of EasyTS (src/easyts/easyts.py): the analysis object, its      *)
(* optimizer / sampler drivers, the posterior-dependent accessors, the     *)
(* save / load_model persistence pair and the GP hyperparameter search.    *)
(*                                                                         *)
(* Abstractions.  A parameter vector (one row of a population, one walker  *)
(* position of a chain) is an opaque value in 0 .. NRowVals-1, its columns *)
(* are not modelled; a population is a sequence of rows, a chain a         *)
(* sequence (walkers) of sequences (steps) of rows.  A time axis is a      *)
(* sequence of integer times, an array shape a sequence of dimensions.     *)
(* Python's None is the empty tuple NoneV and a present value x is         *)
(* Some(x) = <<x>>.  Exceptions are outcomes of the call recorded in       *)
(* `last`; a call that raises leaves every assignment made before the      *)
(* raise in place.                                                         *)
(***************************************************************************)
EXTENDS Integers, Sequences, FiniteSets, TLC

VARIABLES
    an,      \* the EasyTS analysis object (self and self._tsa)
    files,   \* the file system: file name -> contents of '<name>.fits'
    saved,   \* history: per file name, the analysis as it was when save() wrote it
    last,    \* the last call: operation, arguments, outcome, driver call made
    gpo      \* the running optimize_gp_hyperparameters call (its local variables)

vars == <<an, files, saved, last, gpo>>

----------------------------------------------------------------------------
(* Bounds of the model *)

NRowVals == 2      \* distinct abstract parameter-vector values
MaxSteps == 2      \* cap on the stored steps per walker of a chain
UserRows == 3      \* rows of a population passed to fit()
InitNk == 1        \* radius ratio knots of the constructed analysis
InitNldc == 1      \* limb darkening knots of the constructed analysis

NPopGP == 4        \* population size of the GP hyperparameter search

NPoints == 5       \* points of the time axis of the constructed analysis
MaxNorm == 2       \* cap on the baseline normalisations applied to one data set
MaxDeg == 3        \* largest polynomial degree passed to normalize_baseline
MaxBatch == 3      \* largest batch of parameter vectors passed to lnposterior

(* Program constants *)

NOrbital == 4      \* columns 0..3 of a parameter vector: the orbital block
NGpPars == 2       \* GP hyperparameters (sigma, rho) of the free_gp noise model

----------------------------------------------------------------------------
(* Python values *)

NoneV == <<>>
Some(x) == <<x>>
Get(o) == o[1]

Names == {"a"}
NoiseModels == {"white", "fixed_gp", "free_gp"}
Pools == {"pool"}
Results == {"None", "fit", "mcmc", "other"}

NoFile == [exists |-> FALSE]

----------------------------------------------------------------------------
(* TSLPF state read through the EasyTS properties *)

\* TSLPF.ndim: orbital block, one radius ratio per knot, two limb darkening
\* coefficients per knot, and the GP hyperparameters when they are free.
ndim(a) ==
    NOrbital + a.nk + 2 * a.nldc
        + (IF a.noise_model = "free_gp" THEN NGpPars ELSE 0)

\* ParameterSet.sample_from_prior(npop) followed by the re-centring of the
\* orbital and radius ratio columns on the white light curve fit.
sample_from_prior(n) == [i \in 1..n |-> i % NRowVals]

\* The population after the generations of one differential evolution run:
\* every row has moved.
Evolve(x0) == [i \in 1..Len(x0) |-> (x0[i] + 1) % NRowVals]

\* The best-vector indices the optimizer may report for n rows.
BestChoices(n) == IF n = 0 THEN {0} ELSE {0, n - 1}

\* TSLPF.optimize_global: runs the search from `population`, keeps the
\* optimizer, the evolved population and the index of its best vector.
optimize_global(a, npop, population, pool, vectorize, imin) ==
    [a EXCEPT !.de = Some([n_pop |-> npop, minimum_index |-> imin]),
              !.de_population = Some(Evolve(population)),
              !.de_imin = Some(imin)]

----------------------------------------------------------------------------
(* Data.  A time axis is a sequence of integer times; `fluxes` counts the   *)
(* baseline normalisations that have divided the flux and error arrays.     *)

Abs(x) == IF x < 0 THEN 0 - x ELSE x

Axis(n) == [i \in 1..n |-> i]

TSData(time) == [time |-> time, fluxes |-> 0]

DataSets == {TSData(Axis(NPoints)), TSData(Axis(NPoints + 1))}

\* WhiteLPF: the white light curve fit of the data places the transit in the
\* middle of the time axis, two time units long, one transit per data set.
white_fit(time) ==
    [transit_center |-> time[(Len(time) + 1) \div 2],
     transit_duration |-> 2,
     period |-> 4 * Len(time)]

\* pytransit.orbits.fold: the time from the nearest transit centre.
fold(time, period, origo) ==
    [i \in 1..Len(time) |->
        ((time[i] - origo + period \div 2) % period) - period \div 2]

\* abs(x) > 0.502 * transit_duration, point by point.
oot(x, transit_duration) ==
    [i \in 1..Len(x) |-> 1000 * Abs(x[i]) > 502 * transit_duration]

----------------------------------------------------------------------------
(* EasyTS.__init__ *)

NewEasyTS(name, noise_model) ==
    [name |-> name, ldmodel |-> "power-2", noise_model |-> noise_model,
     nk |-> InitNk, nldc |-> InitNldc,
     time |-> Axis(NPoints), fluxes |-> 0, data_fluxes |-> 0, ootmask |-> NoneV,
     wa |-> NoneV, transit_center |-> NoneV, transit_duration |-> NoneV,
     de |-> NoneV, de_population |-> NoneV, de_imin |-> NoneV,
     sampler |-> NoneV, mc_chains |-> NoneV,
     gp |-> NoneV]

NoCall == NoneV
Call(op, args, outcome, call) ==
    [op |-> op, args |-> args, outcome |-> outcome, call |-> call]

GpIdle == [pc |-> "idle"]

Init ==
    /\ an = NewEasyTS("a", "white")
    /\ files = [n \in Names |-> NoFile]
    /\ saved = [n \in Names |-> NoneV]
    /\ last = Call("init", NoneV, "ok", NoCall)
    /\ gpo = GpIdle

----------------------------------------------------------------------------
(* EasyTS.fit_white *)

FitWhite ==
    /\ LET w == white_fit(an.time)
           phase == fold(an.time, w.period, w.transit_center)
       IN  an' = [an EXCEPT !.wa = Some("wa"),
                            !.transit_center = Some(w.transit_center),
                            !.transit_duration = Some(w.transit_duration),
                            !.ootmask = Some(oot(phase, w.transit_duration))]
    /\ last' = Call("fit_white", NoneV, "ok", NoCall)
    /\ UNCHANGED <<files, saved, gpo>>

(* EasyTS.set_data -> TSLPF.set_data: the analysis gets the new data set *)

SetData(d) ==
    /\ an' = [an EXCEPT !.time = d.time, !.fluxes = d.fluxes,
                        !.data_fluxes = d.fluxes]
    /\ last' = Call("set_data", Len(d.time), "ok", NoCall)
    /\ UNCHANGED <<files, saved, gpo>>

(* EasyTS.normalize_baseline *)

normalize_baseline_any(a, deg) ==
    IF a.ootmask = NoneV THEN [outcome |-> "TypeError", a |-> a]
    ELSE IF Len(Get(a.ootmask)) # Len(a.time) THEN [outcome |-> "IndexError", a |-> a]
    ELSE [outcome |-> "ok",
          a |-> [a EXCEPT !.fluxes = a.fluxes + 1, !.data_fluxes = a.fluxes + 1]]

normalize_baseline(a, deg) ==
    IF deg > 1 THEN [outcome |-> "ValueError", a |-> a]
    ELSE IF a.ootmask = NoneV THEN [outcome |-> "TypeError", a |-> a]
    ELSE IF Len(Get(a.ootmask)) # Len(a.time) THEN [outcome |-> "IndexError", a |-> a]
    ELSE [outcome |-> "ok",
          a |-> [a EXCEPT !.fluxes = a.fluxes + 1, !.data_fluxes = a.fluxes + 1]]

NormalizeBaseline(deg) ==
    LET r == normalize_baseline(an, deg)
    IN  /\ r.outcome = "ok" => an.fluxes < MaxNorm
        /\ an' = r.a
        /\ last' = Call("normalize_baseline", deg, r.outcome, NoCall)
        /\ UNCHANGED <<files, saved, gpo>>

(* EasyTS.lnposterior: array shapes are sequences of dimensions *)

\* TSLPF.lnposterior: one log posterior per parameter vector.
tsa_lnposterior(shape) == IF Len(shape) = 1 THEN <<1>> ELSE <<shape[1]>>

\* numpy.squeeze: every axis of length one is removed.
squeeze(shape) == SelectSeq(shape, LAMBDA d : d # 1)

lnposterior(shape) == squeeze(tsa_lnposterior(shape))

PvpShapes(a) == {<<ndim(a)>>} \cup {<<n, ndim(a)>> : n \in 1..MaxBatch}

LnPosterior(shape) ==
    /\ last' = Call("lnposterior", shape, "ok", Some(lnposterior(shape)))
    /\ UNCHANGED <<an, files, saved, gpo>>

(* EasyTS.set_noise_model -> TSLPF.set_noise_model *)

\* A setter that takes any name as a noise model.
SetNoiseModelAny(nm) ==
    /\ an' = [an EXCEPT !.noise_model = nm]
    /\ last' = Call("set_noise_model", Some(nm), "ok", NoCall)
    /\ UNCHANGED <<files, saved, gpo>>

SetNoiseModel(nm) ==
    /\ IF nm \in NoiseModels
       THEN /\ an' = [an EXCEPT !.noise_model = nm]
            /\ last' = Call("set_noise_model", Some(nm), "ok", NoCall)
       ELSE /\ an' = an
            /\ last' = Call("set_noise_model", Some(nm), "ValueError", NoCall)
    /\ UNCHANGED <<files, saved, gpo>>

----------------------------------------------------------------------------
(* EasyTS.fit *)

\* The execution strategy passed to the drivers: vectorize=(pool is None).
vectorize_always(pool) == TRUE

vectorize_of(pool) == pool = NoneV

\* fit() that samples a new population from the priors whenever no population
\* is passed (the retained population is not looked at).
fit_x0_resample(a, npop, population, initial_population) ==
    IF population # NoneV
    THEN [outcome |-> "ok", path |-> "population",
          x0 |-> Get(population), npop |-> Len(Get(population))]
    ELSE IF a.de = NoneV /\ initial_population # NoneV
    THEN [outcome |-> "ok", path |-> "initial_population",
          x0 |-> Get(initial_population), npop |-> Len(Get(initial_population))]
    ELSE IF npop = NoneV
    THEN [outcome |-> "ValueError", path |-> "priors", x0 |-> <<>>, npop |-> 0]
    ELSE IF Get(npop) <= 2 * ndim(a)
    THEN [outcome |-> "ValueError", path |-> "priors", x0 |-> <<>>, npop |-> Get(npop)]
    ELSE IF a.wa = NoneV
    THEN [outcome |-> "AttributeError", path |-> "priors", x0 |-> <<>>, npop |-> Get(npop)]
    ELSE [outcome |-> "ok", path |-> "priors",
          x0 |-> sample_from_prior(Get(npop)), npop |-> Get(npop)]

\* fit() that takes a passed initial_population whether or not an optimizer
\* exists.
fit_x0_initial_first(a, npop, population, initial_population) ==
    IF population # NoneV
    THEN [outcome |-> "ok", path |-> "population",
          x0 |-> Get(population), npop |-> Len(Get(population))]
    ELSE IF initial_population # NoneV
    THEN [outcome |-> "ok", path |-> "initial_population",
          x0 |-> Get(initial_population), npop |-> Len(Get(initial_population))]
    ELSE IF a.de_population # NoneV
    THEN [outcome |-> "ok", path |-> "retained",
          x0 |-> Get(a.de_population), npop |-> Len(Get(a.de_population))]
    ELSE IF npop = NoneV
    THEN [outcome |-> "ValueError", path |-> "priors", x0 |-> <<>>, npop |-> 0]
    ELSE IF Get(npop) <= 2 * ndim(a)
    THEN [outcome |-> "ValueError", path |-> "priors", x0 |-> <<>>, npop |-> Get(npop)]
    ELSE IF a.wa = NoneV
    THEN [outcome |-> "AttributeError", path |-> "priors", x0 |-> <<>>, npop |-> Get(npop)]
    ELSE [outcome |-> "ok", path |-> "priors",
          x0 |-> sample_from_prior(Get(npop)), npop |-> Get(npop)]

\* The choice of the starting population x0 and of npop.
fit_x0(a, npop, population, initial_population) ==
    IF population # NoneV
    THEN [outcome |-> "ok", path |-> "population",
          x0 |-> Get(population), npop |-> Len(Get(population))]
    ELSE IF a.de = NoneV /\ initial_population # NoneV
    THEN [outcome |-> "ok", path |-> "initial_population",
          x0 |-> Get(initial_population), npop |-> Len(Get(initial_population))]
    ELSE IF a.de_population # NoneV
    THEN [outcome |-> "ok", path |-> "retained",
          x0 |-> Get(a.de_population), npop |-> Len(Get(a.de_population))]
    ELSE IF npop = NoneV
    THEN [outcome |-> "ValueError", path |-> "priors", x0 |-> <<>>, npop |-> 0]
    ELSE IF Get(npop) <= 2 * ndim(a)
    THEN [outcome |-> "ValueError", path |-> "priors", x0 |-> <<>>, npop |-> Get(npop)]
    ELSE IF a.wa = NoneV
    THEN [outcome |-> "AttributeError", path |-> "priors", x0 |-> <<>>, npop |-> Get(npop)]
    ELSE [outcome |-> "ok", path |-> "priors",
          x0 |-> sample_from_prior(Get(npop)), npop |-> Get(npop)]

UserPopulation == [i \in 1..UserRows |-> i % NRowVals]
UserInitialPopulation == [i \in 1..UserRows |-> (i + 1) % NRowVals]

NpopArgs(a) == {NoneV} \cup {Some(n) : n \in (2 * ndim(a) - 1)..(2 * ndim(a) + 1)}

Fit(npop, pool, population, initial_population) ==
    LET s == fit_x0(an, npop, population, initial_population)
        args == [npop |-> npop, pool |-> pool,
                 population |-> population # NoneV,
                 initial_population |-> initial_population # NoneV,
                 path |-> s.path]
    IN  /\ IF s.outcome = "ok"
           THEN \E imin \in BestChoices(s.npop) :
                   /\ an' = optimize_global(an, s.npop, s.x0, pool,
                                            vectorize_of(pool), imin)
                   /\ last' = Call("fit", args, "ok",
                                   Some([driver |-> "optimize_global",
                                         npop |-> s.npop, population |-> s.x0,
                                         pool |-> pool, vectorize |-> vectorize_of(pool)]))
           ELSE /\ an' = an
                /\ last' = Call("fit", args, s.outcome, NoCall)
        /\ UNCHANGED <<files, saved, gpo>>

----------------------------------------------------------------------------
(* EasyTS.sample -> TSLPF.sample_mcmc, EasyTS.reset_sampler *)

LastStep(chain) == [w \in 1..Len(chain) |-> chain[w][Len(chain[w])]]
StepsOf(chain) == IF Len(chain) = 0 THEN 0 ELSE Len(chain[1])

\* n further steps of every walker, each walker starting from start[w].
Walk(start, n) ==
    [w \in 1..Len(start) |-> [k \in 1..n |-> (start[w] + k) % NRowVals]]

\* TSLPF.sample_mcmc: walkers start from the optimizer population when no
\* chain is stored, otherwise from the last stored step; the new steps are
\* appended to the stored chain.
sample_mcmc(a, n, pool, vectorize) ==
    LET old == IF a.mc_chains = NoneV
               THEN [w \in 1..Len(Get(a.de_population)) |-> <<>>]
               ELSE Get(a.mc_chains)
        start == IF a.mc_chains = NoneV THEN Get(a.de_population)
                 ELSE LastStep(Get(a.mc_chains))
        new == Walk(start, n)
        chain == [w \in 1..Len(old) |-> old[w] \o new[w]]
    IN  [a EXCEPT !.sampler = Some([nwalkers |-> Len(chain), chain |-> chain]),
                  !.mc_chains = Some(chain)]

SampleSeed(a) == IF a.mc_chains = NoneV THEN "population" ELSE "chain"

Sample(n, pool) ==
    /\ IF an.mc_chains = NoneV /\ an.de_population = NoneV
       THEN /\ an' = an
            /\ last' = Call("sample", [pool |-> pool, seed |-> "none"], "Error", NoCall)
       ELSE /\ StepsOf(IF an.mc_chains = NoneV THEN <<>> ELSE Get(an.mc_chains)) + n
                  <= MaxSteps
            /\ an' = sample_mcmc(an, n, pool, vectorize_of(pool))
            /\ last' = Call("sample", [pool |-> pool, seed |-> SampleSeed(an)], "ok",
                            Some([driver |-> "sample_mcmc", pool |-> pool,
                                  vectorize |-> vectorize_of(pool)]))
    /\ UNCHANGED <<files, saved, gpo>>

\* A reset that drops the sampler object and keeps the stored chain.
ResetSamplerOnly ==
    /\ an' = [an EXCEPT !.sampler = NoneV]
    /\ last' = Call("reset_sampler", NoneV, "ok", NoCall)
    /\ UNCHANGED <<files, saved, gpo>>

ResetSampler ==
    /\ an' = [an EXCEPT !.mc_chains = NoneV, !.sampler = NoneV]
    /\ last' = Call("reset_sampler", NoneV, "ok", NoCall)
    /\ UNCHANGED <<files, saved, gpo>>

----------------------------------------------------------------------------
(* EasyTS.add_noise_to_solution *)

Perturb(v) == (v + 1) % NRowVals

\* Noise added to every stored step of the chain.
add_noise_to_all_steps(a, result) ==
    IF result = "fit"
    THEN IF a.de_population = NoneV
         THEN [outcome |-> "TypeError", a |-> a]
         ELSE [outcome |-> "ok",
               a |-> [a EXCEPT !.de_population =
                         Some([i \in 1..Len(Get(a.de_population)) |->
                                  Perturb(Get(a.de_population)[i])])]]
    ELSE IF result = "mcmc"
    THEN IF a.mc_chains = NoneV
         THEN [outcome |-> "TypeError", a |-> a]
         ELSE [outcome |-> "ok",
               a |-> [a EXCEPT !.mc_chains =
                         Some([w \in 1..Len(Get(a.mc_chains)) |->
                                  [k \in 1..Len(Get(a.mc_chains)[w]) |->
                                      Perturb(Get(a.mc_chains)[w][k])]])]]
    ELSE [outcome |-> "ValueError:result", a |-> a]

add_noise_to_solution(a, result) ==
    IF result = "fit"
    THEN IF a.de_population = NoneV
         THEN [outcome |-> "TypeError", a |-> a]
         ELSE [outcome |-> "ok",
               a |-> [a EXCEPT !.de_population =
                         Some([i \in 1..Len(Get(a.de_population)) |->
                                  Perturb(Get(a.de_population)[i])])]]
    ELSE IF result = "mcmc"
    THEN IF a.mc_chains = NoneV
         THEN [outcome |-> "TypeError", a |-> a]
         ELSE [outcome |-> "ok",
               a |-> [a EXCEPT !.mc_chains =
                         Some([w \in 1..Len(Get(a.mc_chains)) |->
                                  [k \in 1..Len(Get(a.mc_chains)[w]) |->
                                      IF k = Len(Get(a.mc_chains)[w])
                                      THEN Perturb(Get(a.mc_chains)[w][k])
                                      ELSE Get(a.mc_chains)[w][k]]])]]
    ELSE [outcome |-> "ValueError:result", a |-> a]

AddNoiseToSolution(result) ==
    LET r == add_noise_to_solution(an, result)
    IN  /\ an' = r.a
        /\ last' = Call("add_noise_to_solution", result, r.outcome, NoCall)
        /\ UNCHANGED <<files, saved, gpo>>

----------------------------------------------------------------------------
(* The posterior-dependent accessors.  Each operator gives the result the    *)
(* call settles on (`chosen`) and how the call ends (`outcome`).             *)

Query(chosen, outcome) == [chosen |-> chosen, outcome |-> outcome]

plot_transmission_spectrum(a, result) ==
    LET r == IF result = "None"
             THEN (IF a.sampler # NoneV THEN "mcmc" ELSE "fit")
             ELSE result
    IN  IF r \notin {"fit", "mcmc"} THEN Query(r, "ValueError:result")
        ELSE IF r = "mcmc" /\ a.mc_chains = NoneV
        THEN Query(r, "ValueError:prerequisite")
        ELSE IF r = "fit"
        THEN (IF a.de_population = NoneV \/ a.de_imin = NoneV
              THEN Query(r, "TypeError") ELSE Query(r, "ok"))
        ELSE Query(r, "ok")

plot_limb_darkening_parameters(a, result) ==
    IF a.ldmodel \notin {"quadratic", "quadratic-tri", "power-2", "power-2-pm"}
    THEN Query("none", "ok")
    ELSE
    LET r == IF result = "None"
             THEN (IF a.sampler # NoneV THEN "mcmc" ELSE "fit")
             ELSE result
    IN  IF r \notin {"fit", "mcmc"} THEN Query(r, "ValueError:result")
        ELSE IF r = "mcmc" /\ a.sampler = NoneV
        THEN Query(r, "ValueError:prerequisite")
        ELSE IF r = "fit"
        THEN (IF a.de_population = NoneV \/ a.de_imin = NoneV
              THEN Query(r, "TypeError") ELSE Query(r, "ok"))
        ELSE (IF a.mc_chains = NoneV
              THEN Query(r, "AttributeError") ELSE Query(r, "ok"))

plot_residuals(a, result) ==
    IF result \notin {"fit", "mcmc", "None"} THEN Query(result, "ValueError:result")
    ELSE IF result = "None" /\ a.mc_chains = NoneV /\ a.de_population = NoneV
    THEN Query("none", "ValueError:prerequisite")
    ELSE
    LET r == IF result = "None"
             THEN (IF a.mc_chains # NoneV THEN "mcmc" ELSE "fit")
             ELSE result
    IN  IF r = "fit" /\ (a.de_population = NoneV \/ a.de_imin = NoneV)
        THEN Query(r, "TypeError")
        ELSE IF r = "mcmc" /\ a.mc_chains = NoneV
        THEN Query(r, "AttributeError")
        ELSE IF a.transit_center = NoneV \/ a.transit_duration = NoneV
        THEN Query(r, "TypeError:transit")
        ELSE Query(r, "ok")

\* An accessor that looks for the sampler instead of the stored chain.
get_transmission_spectrum_of_sampler(a) ==
    IF a.sampler = NoneV THEN Query("mcmc", "ValueError:prerequisite")
    ELSE Query("mcmc", "ok")

get_transmission_spectrum(a) ==
    IF a.mc_chains = NoneV THEN Query("mcmc", "ValueError:prerequisite")
    ELSE Query("mcmc", "ok")

posterior_samples(a) ==
    IF a.mc_chains = NoneV THEN Query("mcmc", "AttributeError")
    ELSE Query("mcmc", "ok")

Observe(op, result, q) ==
    /\ last' = Call(op, result, q.outcome, Some(q.chosen))
    /\ UNCHANGED <<an, files, saved, gpo>>

PlotTransmissionSpectrum(result) ==
    Observe("plot_transmission_spectrum", result, plot_transmission_spectrum(an, result))

PlotLimbDarkeningParameters(result) ==
    Observe("plot_limb_darkening_parameters", result,
            plot_limb_darkening_parameters(an, result))

PlotResiduals(result) ==
    Observe("plot_residuals", result, plot_residuals(an, result))

GetTransmissionSpectrum ==
    Observe("get_transmission_spectrum", "mcmc", get_transmission_spectrum(an))

PosteriorSamples ==
    Observe("posterior_samples", "mcmc", posterior_samples(an))

----------------------------------------------------------------------------
(* EasyTS.save *)

RECURSIVE Flatten(_)
\* EnsembleSampler.flatchain: the chain [walker, step] flattened walker by walker.
Flatten(chain) ==
    IF chain = <<>> THEN <<>> ELSE Head(chain) \o Flatten(Tail(chain))

\* ndarray.reshape([npop, -1, ndim]) of the MCMC table: npop walkers of
\* equally many steps, in the order of the table's rows.
Reshape(flat, npop) ==
    LET ns == Len(flat) \div npop
    IN  [w \in 1..npop |-> SubSeq(flat, (w - 1) * ns + 1, w * ns)]

\* The HDU list that save() builds.
save_hdul(a) ==
    [exists |-> TRUE,
     name |-> a.name, t0 |-> a.transit_center, t14 |-> a.transit_duration,
     time |-> a.time, fluxes |-> a.data_fluxes,
     ldmodel |-> a.ldmodel, k_knots |-> a.nk, ld_knots |-> a.nldc,
     DE |-> IF a.de # NoneV
            THEN Some([population |-> Get(a.de_population),
                       npop |-> Get(a.de).n_pop,
                       imin |-> Get(a.de).minimum_index])
            ELSE NoneV,
     MCMC |-> IF a.sampler # NoneV
              THEN Some([flatchain |-> Flatten(Get(a.sampler).chain),
                         npop |-> Get(a.sampler).nwalkers])
              ELSE NoneV]

\* hdul.writeto(f"{self.name}.fits", overwrite=True)
writeto(fs, fname, hdul, overwrite) ==
    IF fs[fname].exists /\ ~overwrite
    THEN [outcome |-> "OSError", fs |-> fs]
    ELSE [outcome |-> "ok", fs |-> [fs EXCEPT ![fname] = hdul]]

save(a, fs, overwrite) == writeto(fs, a.name, save_hdul(a), TRUE)

\* What the analysis held when it was saved (history, read by no operation).
Snapshot(a) ==
    [noise_model |-> a.noise_model, ndim |-> ndim(a),
     de_population |-> a.de_population, de_imin |-> a.de_imin,
     mc_chains |-> a.mc_chains]

Save(overwrite) ==
    LET r == save(an, files, overwrite)
    IN  /\ files' = r.fs
        /\ saved' = IF r.outcome = "ok"
                    THEN [saved EXCEPT ![an.name] = Some(Snapshot(an))]
                    ELSE saved
        /\ last' = Call("save",
                        [overwrite |-> overwrite, existed |-> files[an.name].exists],
                        r.outcome, NoCall)
        /\ UNCHANGED <<an, gpo>>

----------------------------------------------------------------------------
(* load_model *)

load_model(f, name) ==
    LET a0 == [NewEasyTS(IF name # NoneV THEN Get(name) ELSE f.name, "white")
                  EXCEPT !.ldmodel = f.ldmodel,
                         !.nk = f.k_knots, !.nldc = f.ld_knots,
                         !.time = f.time, !.fluxes = f.fluxes,
                         !.data_fluxes = f.fluxes,
                         !.transit_center = f.t0, !.transit_duration = f.t14,
                         !.ootmask =
                            IF f.t14 # NoneV
                            THEN Some(oot([i \in 1..Len(f.time) |->
                                              f.time[i] - Get(f.t0)],
                                          Get(f.t14)))
                            ELSE NoneV]
        a1 == IF f.DE # NoneV
              THEN [a0 EXCEPT !.de_population = Some(Get(f.DE).population),
                              !.de_imin = Some(Get(f.DE).imin)]
              ELSE a0
    IN  IF f.MCMC # NoneV
        THEN [a1 EXCEPT !.mc_chains =
                 Some(Reshape(Get(f.MCMC).flatchain, Get(f.MCMC).npop))]
        ELSE a1

LoadModel(fname, name) ==
    /\ IF files[fname].exists
       THEN /\ an' = load_model(files[fname], name)
            /\ last' = Call("load_model", [fname |-> fname, name |-> name], "ok", NoCall)
       ELSE /\ an' = an
            /\ last' = Call("load_model", [fname |-> fname, name |-> name],
                            "FileNotFoundError", NoCall)
    /\ UNCHANGED <<files, saved, gpo>>

----------------------------------------------------------------------------
(* EasyTS.optimize_gp_hyperparameters.  Hyperparameters are searched in     *)
(* log10 on the integer grid; 10**x is kept exact as a fraction.            *)

FloatArg(v) == [kind |-> "float", lo |-> v, hi |-> v]
IntArg(v) == [kind |-> "int", lo |-> v, hi |-> v]
PairArg(lo, hi) == [kind |-> "pair", lo |-> lo, hi |-> hi]

IsIterable(b) == b.kind = "pair"
IsFloat(b) == b.kind = "float"

Pow10(e) == IF e >= 0 THEN [num |-> 10 ^ e, den |-> 1]
            ELSE [num |-> 1, den |-> 10 ^ (0 - e)]

\* sb, rb: a bounds pair is used as given, a scalar s becomes [s-1, s+1].
gp_bounds(b) == IF IsIterable(b) THEN <<b.lo, b.hi>> ELSE <<b.lo - 1, b.hi + 1>>

\* An objective that also rejects the candidates lying on a bound.
nll_closed(log10x, bounds) ==
    IF (\E j \in 1..2 : log10x[j] <= bounds[j][1])
         \/ (\E j \in 1..2 : log10x[j] >= bounds[j][2])
    THEN [val |-> "inf", computed |-> FALSE]
    ELSE [val |-> "nll", computed |-> TRUE]

\* The objective nll(log10x) of the search: +inf outside the bounds, otherwise
\* the GP is given the candidate kernel, recomputed, and its negative
\* log-likelihood returned.
nll(log10x, bounds) ==
    IF (\E j \in 1..2 : log10x[j] < bounds[j][1])
         \/ (\E j \in 1..2 : log10x[j] > bounds[j][2])
    THEN [val |-> "inf", computed |-> FALSE]
    ELSE [val |-> "nll", computed |-> TRUE]

\* DiffEvol(nll, bounds, npop): a population drawn inside the bounds.
DePopulations(bounds) ==
    [1..NPopGP -> (bounds[1][1]..bounds[1][2]) \X (bounds[2][1]..bounds[2][2])]

\* de.population[:, j] = scalar, for a scalar that is a float.
fix_column(pop, j, b) ==
    IF IsFloat(b)
    THEN [m \in 1..NPopGP |-> [pop[m] EXCEPT ![j] = b.lo]]
    ELSE pop

SubsetArgs == {"None", "float", "iterable", "int"}
PriorArgs == {"None", "iterable", "logpdf", "other"}

\* The argument checks in the order of the code: the statement that raises.
gp_checks_any_state(a, subset, sprior, rprior) ==
    IF subset = "int" THEN "subset"
    ELSE IF sprior = "other" THEN "log10_sigma_prior"
    ELSE IF rprior = "other" THEN "log10_rho_prior"
    ELSE "none"

gp_checks(a, subset, sprior, rprior) ==
    IF a.noise_model # "fixed_gp" THEN "noise_model"
    ELSE IF subset = "int" THEN "subset"
    ELSE IF sprior = "other" THEN "log10_sigma_prior"
    ELSE IF rprior = "other" THEN "log10_rho_prior"
    ELSE "none"

GPStart(sigma, rho, subset, sprior, rprior) ==
    /\ gpo.pc = "idle"
    /\ IF gp_checks(an, subset, sprior, rprior) # "none"
       THEN /\ gpo' = [pc |-> "done", outcome |-> "ValueError",
                       raised_by |-> gp_checks(an, subset, sprior, rprior),
                       sigma |-> sigma, rho |-> rho]
            /\ last' = Call("optimize_gp_hyperparameters", NoneV, "ValueError", NoCall)
       ELSE LET bounds == <<gp_bounds(sigma), gp_bounds(rho)>>
            IN  \E pop \in DePopulations(bounds) :
                  /\ gpo' = [pc |-> "search", outcome |-> "running",
                             sigma |-> sigma, rho |-> rho, bounds |-> bounds,
                             population |-> fix_column(fix_column(pop, 1, sigma), 2, rho)]
                  /\ last' = Call("optimize_gp_hyperparameters", NoneV, "running", NoCall)
    /\ UNCHANGED <<an, files, saved>>

\* One member's turn in a generation of de.optimize(niter): the trial vector
\* is a third member plus the difference of two others, crossed with member i
\* in the coordinates of `mask`; it replaces member i only if its objective
\* is finite and (accept) better.
DEStep(i, v1, v2, v3, mask, accept) ==
    /\ gpo.pc = "search"
    /\ Cardinality({i, v1, v2, v3}) = 4
    /\ LET pop == gpo.population
           v == [j \in 1..2 |-> pop[v1][j] + (pop[v2][j] - pop[v3][j])]
           trial == [j \in 1..2 |-> IF j \in mask THEN v[j] ELSE pop[i][j]]
           f == nll(trial, gpo.bounds)
       IN  gpo' = IF f.val # "inf" /\ accept
                  THEN [gpo EXCEPT !.population[i] = trial]
                  ELSE gpo
    /\ UNCHANGED <<an, files, saved, last>>

\* After de.optimize: x = de.minimum_location, the GP gets the kernel
\* (10**x[0], 10**x[1]) and (10**x, de._fitness.ptp()) is returned: the
\* peak-to-peak spread of the population's fitness ("ptp").
GPFinish(m) ==
    /\ gpo.pc = "search"
    /\ LET x == gpo.population[m]
           k == <<Pow10(x[1]), Pow10(x[2])>>
       IN  /\ gpo' = [pc |-> "done", outcome |-> "ok",
                      sigma |-> gpo.sigma, rho |-> gpo.rho,
                      bounds |-> gpo.bounds, population |-> gpo.population,
                      x |-> x, ret |-> k, ret_fitness |-> "ptp"]
           /\ an' = [an EXCEPT !.gp = Some([sigma |-> k[1], rho |-> k[2]])]
           /\ last' = Call("optimize_gp_hyperparameters", NoneV, "ok", NoCall)
    /\ UNCHANGED <<files, saved>>

SigmaArgs == {FloatArg(-3), IntArg(-3), PairArg(-3, -2)}
RhoArgs == {FloatArg(-1), PairArg(-1, 0)}

InitGP ==
    /\ \E nm \in NoiseModels : an = NewEasyTS("a", nm)
    /\ files = [n \in Names |-> NoFile]
    /\ saved = [n \in Names |-> NoneV]
    /\ last = Call("init", NoneV, "ok", NoCall)
    /\ gpo = GpIdle

NextGP ==
    \/ \E sigma \in SigmaArgs, rho \in RhoArgs, subset \in SubsetArgs,
          sprior \in PriorArgs, rprior \in PriorArgs :
            GPStart(sigma, rho, subset, sprior, rprior)
    \/ \E i \in 1..NPopGP, v1 \in 1..NPopGP, v2 \in 1..NPopGP, v3 \in 1..NPopGP,
          mask \in {{1}, {2}, {1, 2}}, accept \in BOOLEAN :
            DEStep(i, v1, v2, v3, mask, accept)
    \/ \E m \in 1..NPopGP : GPFinish(m)

SpecGP == InitGP /\ [][NextGP]_vars

(* The objective alone: bounds and candidates drawn from the grid. *)

NllCandidates == (-6..0) \X (-4..2)

InitNll ==
    /\ an = NewEasyTS("a", "fixed_gp")
    /\ files = [n \in Names |-> NoFile]
    /\ saved = [n \in Names |-> NoneV]
    /\ last = Call("init", NoneV, "ok", NoCall)
    /\ \E sigma \in SigmaArgs, rho \in RhoArgs :
          gpo = [pc |-> "nll", bounds |-> <<gp_bounds(sigma), gp_bounds(rho)>>,
                 x |-> NoneV, val |-> "none", computed |-> FALSE]

EvalNll(log10x) ==
    /\ gpo.pc = "nll"
    /\ LET f == nll(log10x, gpo.bounds)
       IN  gpo' = [gpo EXCEPT !.x = Some(log10x), !.val = f.val,
                              !.computed = f.computed]
    /\ UNCHANGED <<an, files, saved, last>>

NextNll == \E log10x \in NllCandidates : EvalNll(log10x)

SpecNll == InitNll /\ [][NextNll]_vars

----------------------------------------------------------------------------
(* The analysis life cycle in memory: configuring, fitting and sampling    *)
(* one analysis object with every combination of arguments.                *)

PoolArgs == {NoneV} \cup {Some(p) : p \in Pools}

Next ==
    \/ FitWhite
    \/ \E nm \in NoiseModels \cup {"red"} : SetNoiseModel(nm)
    \/ \E npop \in NpopArgs(an), pool \in PoolArgs,
          population \in {NoneV, Some(UserPopulation)},
          initial_population \in {NoneV, Some(UserInitialPopulation)} :
            Fit(npop, pool, population, initial_population)
    \/ \E n \in 1..MaxSteps, pool \in PoolArgs : Sample(n, pool)
    \/ ResetSampler

Spec == Init /\ [][Next]_vars

(* The results in memory: an analysis fitted from a supplied population,    *)
(* sampled and reset, with every posterior-dependent operation called on it *)
(* at every stage.                                                          *)

NextPosterior ==
    \/ FitWhite
    \/ \E population \in {NoneV, Some(UserPopulation)} :
            Fit(NoneV, NoneV, population, NoneV)
    \/ \E n \in 1..MaxSteps : Sample(n, NoneV)
    \/ ResetSampler
    \/ \E result \in Results \ {"None"} : AddNoiseToSolution(result)
    \/ \E result \in Results : PlotTransmissionSpectrum(result)
    \/ \E result \in Results : PlotLimbDarkeningParameters(result)
    \/ \E result \in Results : PlotResiduals(result)
    \/ GetTransmissionSpectrum
    \/ PosteriorSamples

SpecPosterior == Init /\ [][NextPosterior]_vars

(* Persistence: analyses fitted from a supplied population, sampled, saved  *)
(* and loaded back, the loaded analysis taking the place of the saved one.  *)

NextIO ==
    \/ FitWhite
    \/ \E nm \in NoiseModels : SetNoiseModel(nm)
    \/ \E population \in {NoneV, Some(UserPopulation)} :
            Fit(NoneV, NoneV, population, NoneV)
    \/ Sample(1, NoneV)
    \/ ResetSampler
    \/ \E overwrite \in BOOLEAN : Save(overwrite)
    \/ \E fname \in Names, name \in {NoneV} \cup {Some(n) : n \in Names} :
            LoadModel(fname, name)
    \/ GetTransmissionSpectrum

SpecIO == Init /\ [][NextIO]_vars

(* The chain's life: sampled, reset, saved, loaded, and asked for the       *)
(* transmission spectrum.                                                   *)

NextChain ==
    \/ \E population \in {NoneV, Some(UserPopulation)} :
            Fit(NoneV, NoneV, population, NoneV)
    \/ \E n \in 1..MaxSteps : Sample(n, NoneV)
    \/ ResetSampler
    \/ Save(TRUE)
    \/ \E fname \in Names : LoadModel(fname, NoneV)
    \/ GetTransmissionSpectrum

SpecChain == Init /\ [][NextChain]_vars

(* Fitting again: fit() with every combination of npop, population and      *)
(* initial_population, on an analysis as constructed, as fitted before, and *)
(* as loaded from a file (a retained population without an optimizer).      *)

NextRefit ==
    \/ FitWhite
    \/ \E npop \in NpopArgs(an),
          population \in {NoneV, Some(UserPopulation)},
          initial_population \in {NoneV, Some(UserInitialPopulation)} :
            Fit(npop, NoneV, population, initial_population)
    \/ Save(TRUE)
    \/ \E fname \in Names : LoadModel(fname, NoneV)

SpecRefit == Init /\ [][NextRefit]_vars

(* Data handling: the white fit, replacing and normalising the data, the    *)
(* log posterior, and the data's way through a file.                        *)

NextData ==
    \/ FitWhite
    \/ \E d \in DataSets : SetData(d)
    \/ \E deg \in 0..MaxDeg : NormalizeBaseline(deg)
    \/ \E nm \in NoiseModels : SetNoiseModel(nm)
    \/ \E shape \in PvpShapes(an) : LnPosterior(shape)
    \/ Save(TRUE)
    \/ \E fname \in Names : LoadModel(fname, NoneV)

SpecData == Init /\ [][NextData]_vars

----------------------------------------------------------------------------
(* The claims *)

FitCall == Get(last.call)

\* C1 (as claimed): when fit() builds its population from the priors, with the
\* white light curve fit at hand, it raises ValueError exactly when npop is None
\* or npop < 2*ndim; every npop >= 2*ndim reaches the optimizer.
C1_NpopRejectedIffBelowTwiceNdim ==
    (last.op = "fit" /\ last.args.path = "priors" /\ an.wa # NoneV) =>
        /\ (last.outcome = "ValueError") <=>
              (last.args.npop = NoneV \/ Get(last.args.npop) < 2 * ndim(an))
        /\ (last.args.npop # NoneV /\ Get(last.args.npop) >= 2 * ndim(an)) =>
              (last.outcome = "ok" /\ last.call # NoCall)

\* C2: once a fit() has succeeded, every later fit() without a population
\* argument succeeds whatever npop is (None included) and hands the optimizer
\* exactly the population the analysis retained, npop being its row count.
C2_RefitStartsFromRetained ==
    [][(an.de # NoneV /\ last'.op = "fit" /\ ~last'.args.population) =>
          /\ last'.outcome = "ok"
          /\ Get(last'.call).population = Get(an.de_population)
          /\ Get(last'.call).npop = Len(Get(an.de_population))]_vars

C2_Witness ==
    /\ last.op = "fit" /\ last.outcome = "ok"
    /\ last.args.path = "retained"
    /\ last.args.npop = NoneV /\ last.args.initial_population
    /\ FitCall.population # UserInitialPopulation

\* C3: every call fit() and sample() make to their driver has vectorize true
\* exactly when no pool was supplied, and passes the supplied pool unchanged.
C3_OneExecutionStrategy ==
    (last.op \in {"fit", "sample"} /\ last.call # NoCall) =>
        /\ FitCall.vectorize <=> (last.args.pool = NoneV)
        /\ FitCall.pool = last.args.pool

C3_Witness ==
    /\ last.op = "sample" /\ last.call # NoCall
    /\ last.args.pool = Some("pool") /\ ~FitCall.vectorize

PosteriorOps ==
    {"plot_transmission_spectrum", "plot_limb_darkening_parameters",
     "plot_residuals", "get_transmission_spectrum", "posterior_samples"}

\* The result the last posterior-dependent call needed.
NeededResult ==
    IF last.op = "add_noise_to_solution" THEN last.args ELSE Get(last.call)

\* C4 (as claimed): a posterior-dependent operation whose result does not exist
\* yet ('fit' without an optimizer population, 'mcmc' without a chain) ends in
\* the 'prerequisite step not run' ValueError.
C4_MissingResultRaisesPrerequisiteError ==
    (last.op \in PosteriorOps \cup {"add_noise_to_solution"}) =>
        (((NeededResult = "fit" /\ an.de_population = NoneV)
            \/ (NeededResult = "mcmc" /\ an.mc_chains = NoneV))
         => last.outcome = "ValueError:prerequisite")

\* C5 (as claimed): whenever a result exists, the three plots called with
\* result=None settle on the same result: 'mcmc' if a chain is stored, 'fit'
\* otherwise.
C5_DefaultResultAgrees ==
    (an.mc_chains # NoneV \/ an.de_population # NoneV) =>
        LET want == IF an.mc_chains # NoneV THEN "mcmc" ELSE "fit"
        IN  /\ plot_transmission_spectrum(an, "None").chosen = want
            /\ plot_limb_darkening_parameters(an, "None").chosen = want
            /\ plot_residuals(an, "None").chosen = want

IsScalar(b) == b.kind \in {"float", "int"}

\* C6 (as claimed): a hyperparameter whose bounds argument is a scalar, float or
\* int, has that value in every member of the population during the whole search
\* and the returned value is 10**scalar.
C6_ScalarHeldConstant ==
    (gpo.pc \in {"search", "done"} /\ gpo.outcome # "ValueError") =>
        /\ IsScalar(gpo.sigma) =>
              /\ \A m \in 1..NPopGP : gpo.population[m][1] = gpo.sigma.lo
              /\ gpo.pc = "done" => gpo.ret[1] = Pow10(gpo.sigma.lo)
        /\ IsScalar(gpo.rho) =>
              /\ \A m \in 1..NPopGP : gpo.population[m][2] = gpo.rho.lo
              /\ gpo.pc = "done" => gpo.ret[2] = Pow10(gpo.rho.lo)

StrictlyOutside(x, bounds) ==
    \E j \in 1..2 : ~(bounds[j][1] <= x[j] /\ x[j] <= bounds[j][2])

\* C7: the objective returns +inf, leaving the GP alone, exactly for the
\* candidates with a coordinate strictly outside its bounds; a candidate inside
\* or on the bounds has the GP recomputed and its likelihood returned.
C7_InfiniteOutsideBounds ==
    (gpo.pc = "nll" /\ gpo.x # NoneV) =>
        IF StrictlyOutside(Get(gpo.x), gpo.bounds)
        THEN gpo.val = "inf" /\ ~gpo.computed
        ELSE gpo.val = "nll" /\ gpo.computed

C7_Witness ==
    /\ gpo.pc = "nll" /\ gpo.x # NoneV
    /\ Get(gpo.x)[1] = gpo.bounds[1][1]
    /\ Get(gpo.x)[2] = gpo.bounds[2][2]
    /\ gpo.val = "nll" /\ gpo.computed

LoadedFrom == Get(saved[last.args.fname])

\* C8 (as claimed): the analysis load_model returns has the noise model, and
\* so the ndim, of the analysis that save() wrote to that file.
C8_NoiseModelRestored ==
    (last.op = "load_model" /\ last.outcome = "ok") =>
        /\ an.noise_model = LoadedFrom.noise_model
        /\ ndim(an) = LoadedFrom.ndim

\* C9 (as claimed): the analysis load_model returns holds the optimizer
\* population, the best-vector index and the chain that the saved analysis held.
C9_SolutionRestored ==
    (last.op = "load_model" /\ last.outcome = "ok") =>
        /\ LoadedFrom.de_population # NoneV =>
              /\ an.de_population = LoadedFrom.de_population
              /\ an.de_imin = LoadedFrom.de_imin
        /\ LoadedFrom.mc_chains # NoneV =>
              an.mc_chains = LoadedFrom.mc_chains

\* C10 (as claimed): save(overwrite=False) on an analysis whose file exists
\* fails and leaves the file as it was.
C10_NoOverwriteByDefault ==
    [][(last'.op = "save" /\ ~last'.args.overwrite /\ files[an.name].exists) =>
          (last'.outcome # "ok" /\ files' = files)]_vars

\* C11 (as claimed): whenever the out-of-transit mask is set it has one entry
\* per point of the current time axis and marks exactly the points lying more
\* than 0.502 transit durations from the current transit centre.
C11_OotMaskConsistent ==
    an.ootmask # NoneV =>
        /\ Len(Get(an.ootmask)) = Len(an.time)
        /\ an.transit_center # NoneV /\ an.transit_duration # NoneV
        /\ \A i \in 1..Len(an.time) :
              Get(an.ootmask)[i] <=>
                  (1000 * Abs(an.time[i] - Get(an.transit_center))
                      > 502 * Get(an.transit_duration))

\* C14 (as claimed): lnposterior of a single vector is a scalar (shape <<>>),
\* and of a batch of n vectors a vector of n entries (shape <<n>>), n = 1
\* included.
C14_OneValuePerVector ==
    (last.op = "lnposterior") =>
        Get(last.call) = IF Len(last.args) = 1 THEN <<>> ELSE <<last.args[1]>>

\* C18: normalize_baseline(deg) with deg > 1 raises ValueError and changes
\* neither the analysis (fluxes, errors, data groups) nor any file; deg 0 and 1
\* on an analysis with a mask of the time axis normalise the data.
C18_DegreeAboveOneRejected ==
    [][(last'.op = "normalize_baseline") =>
          /\ last'.args > 1 =>
                (last'.outcome = "ValueError" /\ an' = an /\ files' = files)
          /\ (last'.args <= 1 /\ an.ootmask # NoneV
                 /\ Len(Get(an.ootmask)) = Len(an.time)) =>
                (last'.outcome = "ok" /\ an'.fluxes = an.fluxes + 1
                    /\ an'.data_fluxes = an'.fluxes)]_vars

C18_Witness ==
    /\ last.op = "normalize_baseline" /\ last.args = 2
    /\ last.outcome = "ValueError"
    /\ an.ootmask # NoneV /\ Len(Get(an.ootmask)) = Len(an.time)
    /\ an.fluxes = 1

\* C12: sample() without a stored chain starts a chain of the new steps alone,
\* walked from the optimizer population; with a stored chain it keeps every
\* stored step and appends steps walked from the last stored one.
\* reset_sampler() leaves no chain and no sampler, and the optimizer population
\* as it was.
C12_SampleSeedsAndResumes ==
    [][/\ (last'.op = "sample" /\ last'.outcome = "ok") =>
            IF an.mc_chains = NoneV
            THEN \E n \in 1..MaxSteps :
                    Get(an'.mc_chains) = Walk(Get(an.de_population), n)
            ELSE LET old == Get(an.mc_chains)
                     new == Get(an'.mc_chains)
                 IN  /\ Len(new) = Len(old)
                     /\ \E n \in 1..MaxSteps : \A w \in 1..Len(old) :
                           /\ Len(new[w]) = Len(old[w]) + n
                           /\ SubSeq(new[w], 1, Len(old[w])) = old[w]
                           /\ SubSeq(new[w], Len(old[w]) + 1, Len(new[w]))
                                 = Walk(LastStep(old), n)[w]
       /\ (last'.op = "reset_sampler") =>
            /\ an'.mc_chains = NoneV /\ an'.sampler = NoneV
            /\ an'.de_population = an.de_population]_vars

C12_Witness ==
    /\ last.op = "sample" /\ last.outcome = "ok" /\ last.args.seed = "chain"
    /\ StepsOf(Get(an.mc_chains)) = MaxSteps

\* The stored steps 1..upto(w) of every walker w are the same before and
\* after the step.
StepsKept(upto(_)) ==
    /\ an'.mc_chains # NoneV
    /\ Len(Get(an'.mc_chains)) = Len(Get(an.mc_chains))
    /\ \A w \in 1..Len(Get(an.mc_chains)) :
          /\ Len(Get(an'.mc_chains)[w]) >= Len(Get(an.mc_chains)[w])
          /\ \A k \in 1..upto(w) :
                Get(an'.mc_chains)[w][k] = Get(an.mc_chains)[w][k]

\* C13 (as claimed): no operation other than reset_sampler() changes a stored
\* step of the chain.
C13_ChainAppendOnly ==
    [][(an.mc_chains # NoneV /\ last'.op # "reset_sampler") =>
          StepsKept(LAMBDA w : Len(Get(an.mc_chains)[w]))]_vars

\* C13 (amended): no operation other than reset_sampler() and
\* add_noise_to_solution('mcmc') changes a stored step; add_noise_to_solution
\* changes the last stored step of each walker and no earlier one.
C13_AppendOnlyButNoise ==
    [][(an.mc_chains # NoneV /\ last'.op # "reset_sampler") =>
          IF last'.op = "add_noise_to_solution"
          THEN StepsKept(LAMBDA w : Len(Get(an.mc_chains)[w]) - 1)
          ELSE StepsKept(LAMBDA w : Len(Get(an.mc_chains)[w]))]_vars

C13_Witness ==
    /\ last.op = "add_noise_to_solution" /\ last.args = "mcmc"
    /\ last.outcome = "ok"
    /\ StepsOf(Get(an.mc_chains)) = MaxSteps

\* The length of the GP hyperparameter slice of the parameter vector.
GpSliceLen(a) == ndim(a) - (NOrbital + a.nk + 2 * a.nldc)

C16_SmallPopulationRejected ==
    (last.op = "fit" /\ last.call # NoCall) =>
        FitCall.npop >= 2 * ndim(an)

\* C17: get_transmission_spectrum() raises its ValueError exactly when no
\* chain is stored, whether the analysis was sampled, reset or loaded, and
\* changes neither the analysis nor the files.
C17_SpectrumNeedsChain ==
    [][(last'.op = "get_transmission_spectrum") =>
          /\ an' = an /\ files' = files
          /\ (last'.outcome = "ValueError:prerequisite") <=> (an.mc_chains = NoneV)
          /\ (last'.outcome = "ok") <=> (an.mc_chains # NoneV)]_vars

C17_Witness ==
    /\ last.op = "get_transmission_spectrum" /\ last.outcome = "ok"
    /\ an.mc_chains # NoneV /\ an.sampler = NoneV

\* A number written as the fraction the model uses for 10**x.
Frac(n) == [num |-> n, den |-> 1]

\* C19 (as claimed): the first result is the optimum in log10 (the coordinates
\* of the bounds) and the second the fitness of the optimum.
C19_ReturnsLog10Values ==
    (gpo.pc = "done" /\ gpo.outcome = "ok") =>
        /\ gpo.ret = <<Frac(gpo.x[1]), Frac(gpo.x[2])>>
        /\ gpo.ret_fitness = "minimum"

\* C20: a call in state white or free_gp ends in the ValueError of the noise
\* model check, whatever its other arguments, and the GP stays as it was; the
\* GP is replaced only by a call that completes, which happens in state
\* fixed_gp only, and then holds the optimized kernel.
C20_OnlyInFixedGp ==
    /\ (gpo.pc # "idle" /\ an.noise_model # "fixed_gp") =>
          /\ gpo.pc = "done" /\ gpo.outcome = "ValueError"
          /\ gpo.raised_by = "noise_model"
          /\ an.gp = NoneV
    /\ an.gp # NoneV =>
          /\ an.noise_model = "fixed_gp"
          /\ gpo.pc = "done" /\ gpo.outcome = "ok"
          /\ Get(an.gp) = [sigma |-> Pow10(gpo.x[1]), rho |-> Pow10(gpo.x[2])]

C20_Witness ==
    /\ gpo.pc = "done" /\ gpo.outcome = "ValueError"
    /\ an.noise_model = "free_gp" /\ an.gp = NoneV
    /\ gpo.sigma = IntArg(-3)

\* The population fit() has to start from, by the precedence of the claim.
ExpectedPath ==
    IF last'.args.population THEN "population"
    ELSE IF an.de = NoneV /\ last'.args.initial_population THEN "initial_population"
    ELSE IF an.de_population # NoneV THEN "retained"
    ELSE "priors"

ExpectedX0 ==
    CASE ExpectedPath = "population" -> UserPopulation
      [] ExpectedPath = "initial_population" -> UserInitialPopulation
      [] ExpectedPath = "retained" -> Get(an.de_population)
      [] OTHER -> sample_from_prior(Get(last'.args.npop))

\* C21: fit() starts from the population argument if given; else from
\* initial_population if given and no optimizer exists; else from the retained
\* population if there is one; else from npop vectors sampled from the priors.
\* The first three never fail, and the optimizer always gets that population
\* with npop equal to its number of rows.
C21_FitPrecedence ==
    [][(last'.op = "fit") =>
          /\ last'.args.path = ExpectedPath
          /\ ExpectedPath # "priors" => last'.outcome = "ok"
          /\ last'.outcome = "ok" =>
                /\ Get(last'.call).population = ExpectedX0
                /\ Get(last'.call).npop = Len(ExpectedX0)
          /\ last'.outcome # "ok" => last'.call = NoCall]_vars

C21_Witness ==
    /\ last.op = "fit" /\ last.outcome = "ok"
    /\ last.args.initial_population /\ ~last.args.population
    /\ last.args.npop # NoneV
    /\ FitCall.population # UserInitialPopulation
    /\ FitCall.npop = Len(FitCall.population)
    /\ FitCall.npop # Get(last.args.npop)

=============================================================================
